---- MODULE Spec2Model ----
(***************************************************************************)
(* Model of the curated-shop server (src/server.js, the module that starts *)
(* at line 99: catalog, subscriber store, affiliate store, search, notify) *)
(* State is the module-level data of the process, the two backing files,   *)
(* the fs.writeFile calls and sendMail promises that are still in flight,  *)
(* and the last response of each handler.                                  *)
(***************************************************************************)
EXTENDS Integers, Sequences, FiniteSets, TLC

VARIABLES
    items,            \* const items = require('./items.json')
    subscribers,      \* let subscribers: array of email strings
    affiliates,       \* let affiliates: array of affiliate records
    ADMIN_TOKEN,      \* process.env.ADMIN_TOKEN
    subscribersFile,  \* content of subscribers.json
    affiliatesFile,   \* content of affiliates.json
    writes,           \* fs.writeFile calls issued and not yet completed
    notify,           \* the notify request in flight: its sendMail promises, its response
    last,             \* the last request answered synchronously: op, request, response
    results,          \* the last search: query and response body
    inflight,         \* subscribe requests received whose handler has not run yet,
                      \* and the answers to those whose handler has run
    page              \* the browser page: the search box's value, the searches
                      \* whose answer has not arrived, the cards on display

vars == <<items, subscribers, affiliates, ADMIN_TOKEN, subscribersFile,
          affiliatesFile, writes, notify, last, results, inflight, page>>

----------------------------------------------------------------------------
(* Bounds of the model. *)

\* longest query text the model searches for
MaxQueryLen == 2
\* fs.writeFile calls that may be in flight at once
MaxPending == 1
\* largest affiliate id the model lets create assign
MaxId == 3

\* writes in flight at one time where writes overlap
MaxOverlap == 2
\* subscribe requests in flight at one time
MaxInflight == 2
\* searches of the page whose answer has not arrived
MaxSearches == 2

----------------------------------------------------------------------------
(* JavaScript values: a request field is undefined, a number or a string.  *)
(* A string is a sequence of one-character strings.                        *)

Undefined == [ty |-> "undefined", n |-> 0, s |-> <<>>]
Num(k) == [ty |-> "number", n |-> k, s |-> <<>>]
Str(cs) == [ty |-> "string", n |-> 0, s |-> cs]

\* ToBoolean: undefined, 0 and "" are falsy
Truthy(v) ==
    CASE v.ty = "undefined" -> FALSE
      [] v.ty = "number" -> v.n # 0
      [] v.ty = "string" -> v.s # <<>>

\* String.prototype.toLowerCase, one character
LowerChar(c) ==
    CASE c = "A" -> "a"
      [] c = "B" -> "b"
      [] c = "C" -> "c"
      [] c = "L" -> "l"
      [] OTHER -> c

\* String.prototype.toLowerCase
toLowerCase(cs) == [i \in 1..Len(cs) |-> LowerChar(cs[i])]

IsDigit(c) == c \in {"0", "1", "2", "3", "4", "5", "6", "7", "8", "9"}

DigitVal(c) ==
    CASE c = "0" -> 0 [] c = "1" -> 1 [] c = "2" -> 2 [] c = "3" -> 3
      [] c = "4" -> 4 [] c = "5" -> 5 [] c = "6" -> 6 [] c = "7" -> 7
      [] c = "8" -> 8 [] c = "9" -> 9

RECURSIVE DecimalVal(_)
DecimalVal(cs) ==
    IF cs = <<>> THEN 0
    ELSE 10 * DecimalVal(SubSeq(cs, 1, Len(cs) - 1)) + DigitVal(cs[Len(cs)])

\* Number(v): [nan, n]. undefined and non-numeric text give NaN, "" gives 0.
Number(v) ==
    CASE v.ty = "undefined" -> [nan |-> TRUE, n |-> 0]
      [] v.ty = "number" -> [nan |-> FALSE, n |-> v.n]
      [] v.ty = "string" ->
           IF \A i \in 1..Len(v.s) : IsDigit(v.s[i])
           THEN [nan |-> FALSE, n |-> DecimalVal(v.s)]
           ELSE [nan |-> TRUE, n |-> 0]

\* a.id === Number(id): NaN equals nothing
IdEquals(aid, num) == ~num.nan /\ aid = num.n

----------------------------------------------------------------------------
(* Responses *)

NoResponse == [op |-> "none", status |-> 0, error |-> "", req |-> Undefined]

Idle == [state |-> "idle", subject |-> Undefined, content |-> Undefined,
         sends |-> <<>>, status |-> 0, fulfilled |-> 0, rejected |-> 0]

\* no page is open
NoPage == [input |-> <<>>, pending |-> <<>>, cards |-> <<>>]

NoResults == [done |-> FALSE, q |-> Undefined, body |-> <<>>, via |-> "none"]

----------------------------------------------------------------------------
(* Backing files and fs.writeFile *)

Missing == [state |-> "missing", data |-> <<>>]
Corrupt == [state |-> "corrupt", data |-> <<>>]
\* JSON.stringify(store, null, 2) written whole
Json(store) == [state |-> "json", data |-> store]

\* a load that never looks at the file
LoadNothing(file) == <<>>

\* fs.existsSync + JSON.parse(fs.readFileSync(file)) in try/catch
Load(file) == IF file.state = "json" THEN file.data ELSE <<>>

\* a write that carries an empty array whatever the store holds
writeFileEmpty(file, store) == [file |-> file, data |-> <<>>]

\* fs.writeFile(file, JSON.stringify(store, null, 2), callback): the call
\* takes the text of the store as it is when the call is made
writeFile(file, store) == [file |-> file, data |-> store]

\* a callback that on an error puts the store back to what the file holds
ReloadOnError(store, file) == Load(file)

\* (err) => { if (err) console.error(...) }: the store is left as it is
OnWriteError(store, file) == store

RemoveAt(seq, i) == SubSeq(seq, 1, i - 1) \o SubSeq(seq, i + 1, Len(seq))

\* What a completing write leaves in its file: the data when it succeeds;
\* the file as it was when it fails before writing (err is logged); a
\* truncated file when it fails after opening the file for writing.
AfterWrite(w, old, outcome) ==
    CASE outcome = "ok" -> Json(w.data)
      [] outcome = "error" -> old
      [] outcome = "truncated" -> Corrupt

\* The callback of one fs.writeFile call runs: writes issued together may
\* complete in any order; an error is logged and nothing else happens.
WriteDone(i, outcome) ==
    /\ i \in 1..Len(writes)
    /\ IF writes[i].file = "subscribers"
       THEN /\ subscribersFile' = AfterWrite(writes[i], subscribersFile, outcome)
            /\ UNCHANGED affiliatesFile
       ELSE /\ affiliatesFile' = AfterWrite(writes[i], affiliatesFile, outcome)
            /\ UNCHANGED subscribersFile
    /\ writes' = RemoveAt(writes, i)
    /\ subscribers' = IF outcome # "ok" /\ writes[i].file = "subscribers"
                      THEN OnWriteError(subscribers, subscribersFile')
                      ELSE subscribers
    /\ affiliates' = IF outcome # "ok" /\ writes[i].file = "affiliates"
                     THEN OnWriteError(affiliates, affiliatesFile')
                     ELSE affiliates
    /\ UNCHANGED <<page, inflight, items, ADMIN_TOKEN, notify, last, results>>

----------------------------------------------------------------------------
(* POST /api/subscribe *)

\* e.toLowerCase() === email.toLowerCase(), with the bug of comparing as typed
SameEmailCaseSensitive(e, email) == e = email

\* e.toLowerCase() === email.toLowerCase()
SameEmail(e, email) == toLowerCase(e) = toLowerCase(email)

\* find that looks at the first entry only
RECURSIVE FindExistingFirstOnly(_, _)
FindExistingFirstOnly(subs, email) ==
    IF subs = <<>> THEN Undefined
    ELSE IF SameEmail(Head(subs), email) THEN Str(Head(subs))
    ELSE Undefined

\* a duplicate check that finds nothing
FindExistingNever(subs, email) == Undefined

\* subscribers.find(...): the first matching entry, or undefined
RECURSIVE FindExisting(_, _)
FindExisting(subs, email) ==
    IF subs = <<>> THEN Undefined
    ELSE IF SameEmail(Head(subs), email) THEN Str(Head(subs))
    ELSE FindExisting(Tail(subs), email)

\* the check without the typeof test
InvalidEmailFalsyOnly(email) == ~Truthy(email)

\* !email || typeof email !== 'string'
InvalidEmail(email) == ~Truthy(email) \/ email.ty # "string"

\* unshift: the entry goes to the front
unshift(list, e) == <<e>> \o list

\* subscribers.push(email)
push(list, e) == Append(list, e)

InvalidEmailMsg == "A valid email address is required."
DuplicateMsg == "This email is already subscribed."

subscribeHandler(email) ==
    /\ IF InvalidEmail(email)
       THEN /\ last' = [op |-> "subscribe", status |-> 400,
                        error |-> InvalidEmailMsg, req |-> email]
            /\ UNCHANGED <<subscribers, writes>>
       ELSE IF Truthy(FindExisting(subscribers, email.s))
       THEN /\ last' = [op |-> "subscribe", status |-> 400,
                        error |-> DuplicateMsg, req |-> email]
            /\ UNCHANGED <<subscribers, writes>>
       ELSE /\ subscribers' = push(subscribers, email.s)
            /\ writes' = Append(writes, writeFile("subscribers", subscribers'))
            /\ last' = [op |-> "subscribe", status |-> 200, error |-> "", req |-> email]
    /\ UNCHANGED <<page, items, affiliates, ADMIN_TOKEN, subscribersFile, affiliatesFile,
                   notify, results>>

\* one request answered by the handler, no other request waiting
Subscribe(email) == subscribeHandler(email) /\ UNCHANGED inflight

\* A request arrives while the requests before it are still waiting for their
\* handler (express.json() is reading their bodies): status 0 is "not answered"
Receive(email) ==
    /\ Len(inflight) < MaxInflight
    /\ \A i \in 1..Len(inflight) : inflight[i].status = 0
    /\ inflight' = Append(inflight, [email |-> email, status |-> 0])
    /\ UNCHANGED <<page, items, subscribers, affiliates, ADMIN_TOKEN, subscribersFile,
                   affiliatesFile, writes, notify, last, results>>

\* The handler of one waiting request runs. It has no await: the check, the
\* push, the writeFile call and the answer happen in one turn of the event
\* loop, and the waiting requests are handled in any order.
Handle(i) ==
    /\ i \in 1..Len(inflight)
    /\ inflight[i].status = 0
    /\ subscribeHandler(inflight[i].email)
    /\ inflight' = [inflight EXCEPT ![i].status = last'.status]

\* every request in flight has its answer: the round is over
Forget ==
    /\ inflight # <<>>
    /\ \A i \in 1..Len(inflight) : inflight[i].status # 0
    /\ inflight' = <<>>
    /\ UNCHANGED <<page, items, subscribers, affiliates, ADMIN_TOKEN, subscribersFile,
                   affiliatesFile, writes, notify, last, results>>

----------------------------------------------------------------------------
(* POST /api/notify *)

\* subscribers.map(email => transporter.sendMail({to: email, ...})): one
\* pending promise per subscriber, in list order
SendPromises(subs) == [i \in 1..Len(subs) |-> [to |-> subs[i], state |-> "pending"]]

IsFulfilled(r) == r.state = "fulfilled"
IsRejected(r) == r.state = "rejected"

\* the counts, with every result counted as rejected
CountAllAsRejected(settled) ==
    [fulfilled |-> Len(SelectSeq(settled, IsFulfilled)), rejected |-> Len(settled)]

\* results.filter(r => r.status === 'fulfilled').length and the same for 'rejected'
CountSettled(settled) ==
    [fulfilled |-> Len(SelectSeq(settled, IsFulfilled)),
     rejected |-> Len(SelectSeq(settled, IsRejected))]

\* the check with && in place of ||
MissingBoth(subject, content) == ~Truthy(subject) /\ ~Truthy(content)

\* !subject || !content
MissingField(subject, content) == ~Truthy(subject) \/ ~Truthy(content)

\* Promise.all: settles once every promise is fulfilled or one is rejected
AllFulfilledOrOneRejected(sends) ==
    \/ \A i \in 1..Len(sends) : sends[i].state = "fulfilled"
    \/ \E i \in 1..Len(sends) : sends[i].state = "rejected"

\* Promise.allSettled: settles once no promise is pending
AllSettled(sends) == \A i \in 1..Len(sends) : sends[i].state # "pending"

\* The handler up to Promise.allSettled(sendPromises)
Notify(subject, content) ==
    /\ notify.state # "sending"
    /\ IF MissingField(subject, content)
       THEN notify' = [state |-> "done", subject |-> subject, content |-> content,
                       sends |-> <<>>, status |-> 400, fulfilled |-> 0, rejected |-> 0]
       ELSE notify' = [state |-> "sending", subject |-> subject, content |-> content,
                       sends |-> SendPromises(subscribers),
                       status |-> 0, fulfilled |-> 0, rejected |-> 0]
    /\ UNCHANGED <<page, inflight, items, subscribers, affiliates, ADMIN_TOKEN, subscribersFile,
                   affiliatesFile, writes, last, results>>

\* The mail transport settles one sendMail promise, either way
SettleSend(i, outcome) ==
    /\ notify.state = "sending"
    /\ i \in 1..Len(notify.sends)
    /\ notify.sends[i].state = "pending"
    /\ notify' = [notify EXCEPT !.sends[i].state = outcome]
    /\ UNCHANGED <<page, inflight, items, subscribers, affiliates, ADMIN_TOKEN, subscribersFile,
                   affiliatesFile, writes, last, results>>

\* .then(results => ...) of Promise.allSettled: runs once every promise settled
NotifyRespond ==
    /\ notify.state = "sending"
    /\ AllSettled(notify.sends)
    /\ notify' = [notify EXCEPT !.state = "done", !.status = 200,
                                !.fulfilled = CountSettled(notify.sends).fulfilled,
                                !.rejected = CountSettled(notify.sends).rejected]
    /\ UNCHANGED <<page, inflight, items, subscribers, affiliates, ADMIN_TOKEN, subscribersFile,
                   affiliatesFile, writes, last, results>>

----------------------------------------------------------------------------
(* Affiliate store: requireAdmin, POST /api/affiliates, DELETE /api/affiliates/:id *)

\* requireAdmin that lets a request with no token through
requireAdminMissingTokenPasses(provided) ==
    IF ~Truthy(ADMIN_TOKEN) THEN TRUE
    ELSE IF Truthy(provided) /\ provided # ADMIN_TOKEN THEN FALSE
    ELSE TRUE

\* requireAdmin: TRUE when next() is called, FALSE when it answers 401
requireAdmin(provided) ==
    IF ~Truthy(ADMIN_TOKEN) THEN TRUE
    ELSE IF ~Truthy(provided) \/ provided # ADMIN_TOKEN THEN FALSE
    ELSE TRUE

\* findIndex that reports the last record when nothing matches
RECURSIVE findIndexFrom(_, _, _)
findIndexFrom(affs, num, i) ==
    IF i >= Len(affs) THEN -1
    ELSE IF IdEquals(affs[i + 1].id, num) THEN i
    ELSE findIndexFrom(affs, num, i + 1)

findIndexOrLast(affs, num) ==
    IF findIndexFrom(affs, num, 0) < 0 THEN Len(affs) - 1
    ELSE findIndexFrom(affs, num, 0)

\* affiliates.findIndex(a => a.id === num): 0-based, -1 when there is none
findIndex(affs, num) == findIndexFrom(affs, num, 0)

\* Math.max(...affiliates.map(a => a.id)) of a non-empty store
RECURSIVE MathMax(_)
MathMax(affs) ==
    IF Len(affs) = 1 THEN affs[1].id
    ELSE IF affs[1].id > MathMax(Tail(affs)) THEN affs[1].id
    ELSE MathMax(Tail(affs))

\* the new id taken from the length of the store
NewIdFromLength(affs) == Len(affs) + 1

\* affiliates.length > 0 ? Math.max(...) + 1 : 1
NewId(affs) == IF Len(affs) > 0 THEN MathMax(affs) + 1 ELSE 1

\* { id, name, link, banner, description, categories }
Record(id, body) ==
    [id |-> id, name |-> body.name, link |-> body.link, banner |-> body.banner,
     description |-> body.description, categories |-> body.categories]

\* an update that appends the record instead of assigning affiliates[idx]
UpdateByAppend(affs, idx, rec) == Append(affs, rec)

\* an update that assigns affiliates[0] whatever idx is
UpdateAtFront(affs, idx, rec) == [affs EXCEPT ![1] = rec]

\* affiliates[idx] = rec
UpdateAt(affs, idx, rec) == [affs EXCEPT ![idx + 1] = rec]

\* affiliates.splice(idx, 1)
Splice(affs, idx) == RemoveAt(affs, idx + 1)

AffiliateResponse(op, status, error, token, body) ==
    [op |-> op, status |-> status, error |-> error,
     req |-> [token |-> token, body |-> body]]

Upsert(token, body) ==
    /\ IF ~requireAdmin(token)
       THEN /\ last' = AffiliateResponse("upsert", 401, "Unauthorized", token, body)
            /\ UNCHANGED <<affiliates, writes>>
       ELSE IF ~Truthy(body.name) \/ ~Truthy(body.link)
       THEN /\ last' = AffiliateResponse("upsert", 400, "Name and link are required.",
                                         token, body)
            /\ UNCHANGED <<affiliates, writes>>
       ELSE IF Truthy(body.id) /\ findIndex(affiliates, Number(body.id)) < 0
       THEN /\ last' = AffiliateResponse("upsert", 404, "Affiliate not found.",
                                         token, body)
            /\ UNCHANGED <<affiliates, writes>>
       ELSE /\ IF Truthy(body.id)
               THEN affiliates' = UpdateAt(affiliates,
                                           findIndex(affiliates, Number(body.id)),
                                           Record(Number(body.id).n, body))
               ELSE affiliates' = Append(affiliates, Record(NewId(affiliates), body))
            /\ writes' = Append(writes, writeFile("affiliates", affiliates'))
            /\ last' = AffiliateResponse("upsert", 200, "", token, body)
    /\ UNCHANGED <<page, inflight, items, subscribers, ADMIN_TOKEN, subscribersFile, affiliatesFile,
                   notify, results>>

\* param is req.params.id, the text of the path segment
Remove(token, param) ==
    /\ IF ~requireAdmin(token)
       THEN /\ last' = AffiliateResponse("remove", 401, "Unauthorized", token, param)
            /\ UNCHANGED <<affiliates, writes>>
       ELSE IF findIndex(affiliates, Number(param)) < 0
       THEN /\ last' = AffiliateResponse("remove", 404, "Affiliate not found.",
                                         token, param)
            /\ UNCHANGED <<affiliates, writes>>
       ELSE /\ affiliates' = Splice(affiliates, findIndex(affiliates, Number(param)))
            /\ writes' = Append(writes, writeFile("affiliates", affiliates'))
            /\ last' = AffiliateResponse("remove", 200, "", token, param)
    /\ UNCHANGED <<page, inflight, items, subscribers, ADMIN_TOKEN, subscribersFile, affiliatesFile,
                   notify, results>>

\* GET /api/affiliates
List ==
    /\ last' = [op |-> "list", status |-> 200, error |-> "", req |-> Undefined]
    /\ UNCHANGED <<page, inflight, items, subscribers, affiliates, ADMIN_TOKEN, subscribersFile,
                   affiliatesFile, writes, notify, results>>

----------------------------------------------------------------------------
(* GET /api/search *)

\* text.startsWith(pat, at), compared character by character
RECURSIVE MatchesAt(_, _, _, _)
MatchesAt(text, pat, at, k) ==
    IF k > Len(pat) THEN TRUE
    ELSE IF at + k > Len(text) THEN FALSE
    ELSE IF text[at + k] # pat[k] THEN FALSE
    ELSE MatchesAt(text, pat, at, k + 1)

\* String.prototype.includes: the first offset at which pat matches, if any
RECURSIVE IncludesFrom(_, _, _)
IncludesFrom(text, pat, at) ==
    IF at + Len(pat) > Len(text) THEN FALSE
    ELSE IF MatchesAt(text, pat, at, 1) THEN TRUE
    ELSE IncludesFrom(text, pat, at + 1)

includes(text, pat) == IncludesFrom(text, pat, 0)

\* the query used as typed
QueryAsTyped(q) == IF Truthy(q) THEN q.s ELSE <<>>

\* (req.query.q || '').toLowerCase()
Query(q) == toLowerCase(IF Truthy(q) THEN q.s ELSE <<>>)

\* items.filter(item => item.search.toLowerCase().includes(query))
RECURSIVE Filter(_, _)
Filter(list, query) ==
    IF list = <<>> THEN <<>>
    ELSE IF includes(toLowerCase(Head(list).search), query)
         THEN <<Head(list)>> \o Filter(Tail(list), query)
         ELSE Filter(Tail(list), query)

\* the body of the answer to GET /api/search?q=...
SearchResponse(q) == IF Query(q) = <<>> THEN items ELSE Filter(items, Query(q))

Search(q) ==
    /\ results' = [done |-> TRUE, q |-> q, body |-> SearchResponse(q), via |-> "server"]
    /\ UNCHANGED <<page, inflight, items, subscribers, affiliates, ADMIN_TOKEN, subscribersFile,
                   affiliatesFile, writes, notify, last>>

\* GET /api/items
GetItems ==
    /\ results' = [done |-> TRUE, q |-> Undefined, body |-> items, via |-> "server"]
    /\ UNCHANGED <<page, inflight, items, subscribers, affiliates, ADMIN_TOKEN, subscribersFile,
                   affiliatesFile, writes, notify, last>>

-----------------------------------------------------------------------------
(* The page's script *)

\* String.prototype.trim: white space at both ends is dropped
RECURSIVE trimStart(_)
trimStart(cs) ==
    IF cs # <<>> /\ Head(cs) = " " THEN trimStart(Tail(cs)) ELSE cs

RECURSIVE trimEnd(_)
trimEnd(cs) ==
    IF cs # <<>> /\ cs[Len(cs)] = " " THEN trimEnd(SubSeq(cs, 1, Len(cs) - 1)) ELSE cs

trim(cs) == trimEnd(trimStart(cs))

\* An entry of the embedded list: the catalog entry without a search field
FallbackItem(item) ==
    [category |-> item.category, name |-> item.name, description |-> item.description]

\* The embedded list, taken to hold the items of the catalog in catalog order
fallbackItems == [i \in 1..Len(items) |-> FallbackItem(items[i])]

\* fallbackItems.filter(item =>
\*     `${item.name} ${item.description}`.toLowerCase().includes(q))
RECURSIVE FallbackFilter(_, _)
FallbackFilter(list, q) ==
    IF list = <<>> THEN <<>>
    ELSE IF includes(toLowerCase(Head(list).name \o <<" ">> \o Head(list).description), q)
         THEN <<Head(list)>> \o FallbackFilter(Tail(list), q)
         ELSE FallbackFilter(Tail(list), q)

\* fetchItems(): the catalog from GET /api/items, the embedded list when the
\* request fails
fetchItems(reachable) ==
    IF reachable THEN [body |-> items, via |-> "server"]
    ELSE [body |-> fallbackItems, via |-> "fallback"]

\* searchItems(query): the query is trimmed and lowercased; an empty one
\* fetches the items; otherwise the server is asked with the trimmed query
\* and, when that fails, the embedded list is filtered with it
\* what one call of searchItems resolves to
Found(query, reachable) ==
    LET q == toLowerCase(trim(query.s))
    IN  IF q = <<>> THEN fetchItems(reachable)
        ELSE IF reachable
             THEN [body |-> SearchResponse(Str(q)), via |-> "server"]
             ELSE [body |-> FallbackFilter(fallbackItems, q), via |-> "fallback"]

searchItems(query, reachable) ==
    LET got == Found(query, reachable)
    IN  /\ results' = [done |-> TRUE, q |-> query, body |-> got.body, via |-> got.via]
        /\ UNCHANGED <<page, inflight, items, subscribers, affiliates, ADMIN_TOKEN,
                       subscribersFile, affiliatesFile, writes, notify, last>>

----------------------------------------------------------------------------
(* Requests the model sends *)

Emails == {Str(<<"a", "B">>), Str(<<"A", "b">>), Str(<<"c">>), Str(<<"l">>),
           Undefined, Str(<<>>), Num(7)}

Texts == {Undefined, Str(<<>>), Str(<<"a">>)}

\* The catalog of a specification that is not about search
NoItems == <<>>

InitFiles ==
    /\ subscribers = Load(subscribersFile)
    /\ affiliates = Load(affiliatesFile)
    /\ writes = <<>>
    /\ notify = Idle
    /\ last = NoResponse
    /\ results = NoResults
    /\ inflight = <<>>
    /\ page = NoPage

\* The subscriber store, its file and the notifications
InitSubscribers ==
    /\ subscribersFile \in {Missing, Json(<<>>)}
    /\ affiliatesFile = Json(<<>>)
    /\ InitFiles
    /\ items = NoItems
    /\ ADMIN_TOKEN = Undefined

NextSubscribers ==
    \/ \E email \in Emails : Len(writes) < MaxPending /\ Subscribe(email)
    \/ \E subject \in Texts, content \in Texts : Notify(subject, content)
    \/ \E i \in 1..Len(notify.sends), outcome \in {"fulfilled", "rejected"} :
          SettleSend(i, outcome)
    \/ NotifyRespond
    \/ \E i \in 1..Len(writes), outcome \in {"ok", "error", "truncated"} :
          WriteDone(i, outcome)

SpecSubscribers == InitSubscribers /\ [][NextSubscribers]_vars

Tokens == {Undefined, Str(<<>>), Str(<<"s">>), Str(<<"t">>)}

Body(id, name, link, banner) ==
    [id |-> id, name |-> name, link |-> link, banner |-> banner,
     description |-> Undefined, categories |-> Undefined]

BodyA == Body(Undefined, Str(<<"a">>), Str(<<"l">>), Undefined)
BodyB == Body(Undefined, Str(<<"b">>), Str(<<"l">>), Str(<<"c">>))

\* what the body carries as id: nothing, a number, the text of a number, other text
Ids == {Undefined, Num(0), Num(1), Num(3), Str(<<"2">>), Str(<<"l">>)}

Bodies ==
    {[b EXCEPT !.id = id] : b \in {BodyA, BodyB}, id \in Ids}
    \cup {Body(Num(1), Undefined, Str(<<"l">>), Undefined),
          Body(Undefined, Str(<<"a">>), Str(<<>>), Undefined)}

Params == {Str(<<"1">>), Str(<<"2">>), Str(<<"0", "3">>), Str(<<"l">>)}

\* Stores the affiliates file may hold at start: ids assigned by earlier creates
InitStores ==
    {<<>>,
     <<Record(1, BodyA)>>,
     <<Record(2, BodyB), Record(1, BodyA)>>}

\* The affiliate store and its file, with no ADMIN_TOKEN set. Writes
\* complete in the order issued here; the file lags the store by at most
\* MaxPending mutations.
InitAffiliates ==
    /\ subscribersFile = Missing
    /\ affiliatesFile \in {Json(s) : s \in InitStores}
    /\ InitFiles
    /\ items = NoItems
    /\ ADMIN_TOKEN = Undefined

\* an upsert that would assign an id waits while that id is beyond MaxId
WithinBounds(body) ==
    /\ Len(writes) < MaxPending
    /\ ~Truthy(body.id) => NewId(affiliates) <= MaxId

NextAffiliates ==
    \/ \E body \in Bodies : WithinBounds(body) /\ Upsert(Undefined, body)
    \/ \E param \in Params : Len(writes) < MaxPending /\ Remove(Undefined, param)
    \/ List
    \/ \E outcome \in {"ok", "truncated"} : WriteDone(1, outcome)

SpecAffiliates == InitAffiliates /\ [][NextAffiliates]_vars

\* The admin check: every setting of ADMIN_TOKEN against every token
AdminBodies ==
    {BodyA, [BodyB EXCEPT !.id = Num(1)], [BodyA EXCEPT !.id = Num(3)],
     Body(Undefined, Undefined, Str(<<"l">>), Undefined)}

AdminParams == {Str(<<"1">>), Str(<<"l">>)}

InitAdmin ==
    /\ subscribersFile = Missing
    /\ affiliatesFile \in {Json(s) : s \in InitStores}
    /\ InitFiles
    /\ items = NoItems
    /\ ADMIN_TOKEN \in {Undefined, Str(<<>>), Str(<<"s">>)}

NextAdmin ==
    \/ \E token \in Tokens, body \in AdminBodies :
          WithinBounds(body) /\ Upsert(token, body)
    \/ \E token \in Tokens, param \in AdminParams :
          Len(writes) < MaxPending /\ Remove(token, param)
    \/ List
    \/ \E outcome \in {"ok", "truncated"} : WriteDone(1, outcome)

SpecAdmin == InitAdmin /\ [][NextAdmin]_vars

\* Catalog items: the search field is the lowercased name and description
Item(category, name, description) ==
    [category |-> category, name |-> name, description |-> description,
     search |-> toLowerCase(name \o <<" ">> \o description)]

Lace == Item("clothing", <<"L", "a">>, <<"b">>)
Lab == Item("accessories", <<"A">>, <<"l", "a", "b">>)
Ball == Item("home", <<"B", "a">>, <<"l", "l">>)

Catalogs == {<<>>, <<Lace>>, <<Lace, Lab, Ball>>, <<Ball, Lace, Ball, Lab>>}

QueryChars == {"a", "A", "b", "l", " "}

\* every text of at most MaxQueryLen characters, and no q at all
Queries ==
    {Undefined} \cup
    {Str(cs) : cs \in UNION {[1..n -> QueryChars] : n \in 0..MaxQueryLen}}

InitSearch ==
    /\ items \in Catalogs
    /\ subscribersFile = Missing
    /\ affiliatesFile = Json(<<>>)
    /\ InitFiles
    /\ ADMIN_TOKEN = Undefined

NextSearch ==
    \/ \E q \in Queries : Search(q)
    \/ GetItems

SpecSearch == InitSearch /\ [][NextSearch]_vars

\* The page's search box: every text typed, with the server reachable or not
PageQueries == Queries \ {Undefined}

NextPage == \E query \in PageQueries, reachable \in BOOLEAN : searchItems(query, reachable)

SpecPage == InitSearch /\ [][NextPage]_vars

\* The containers of the page, one per category: <category>-items
Containers == {"clothing", "accessories", "home"}

RECURSIVE CardsOf(_, _)
CardsOf(list, category) ==
    IF list = <<>> THEN <<>>
    ELSE IF Head(list).category = category
         THEN <<[name |-> Head(list).name, description |-> Head(list).description]>>
                 \o CardsOf(Tail(list), category)
         ELSE CardsOf(Tail(list), category)

\* renderItems(list): every container is emptied, then each item's card is
\* appended to the container of its category, in list order
renderItems(list) == [c \in Containers |-> CardsOf(list, c)]

\* The 'input' listener up to its await: the value typed is read and
\* searchItems(query) issues its request
Input(value) ==
    /\ Len(page.pending) < MaxSearches
    /\ page' = [page EXCEPT !.input = value.s, !.pending = Append(@, value)]
    /\ UNCHANGED <<inflight, items, subscribers, affiliates, ADMIN_TOKEN, subscribersFile,
                   affiliatesFile, writes, notify, last, results>>

\* The rest of the listener: one of the requests not yet answered settles,
\* with the server's answer or with a failure and the fallback, and what
\* searchItems resolved to is rendered
Arrive(i, reachable) ==
    /\ i \in 1..Len(page.pending)
    /\ page' = [page EXCEPT !.pending = RemoveAt(@, i),
                            !.cards = renderItems(Found(page.pending[i], reachable).body)]
    /\ UNCHANGED <<inflight, items, subscribers, affiliates, ADMIN_TOKEN, subscribersFile,
                   affiliatesFile, writes, notify, last, results>>

\* The page after initialize(): the catalog, or the embedded list, is on display
InitBrowser ==
    /\ items = <<Lace, Lab, Ball>>
    /\ subscribersFile = Missing
    /\ affiliatesFile = Json(<<>>)
    /\ subscribers = <<>>
    /\ affiliates = <<>>
    /\ writes = <<>>
    /\ notify = Idle
    /\ last = NoResponse
    /\ results = NoResults
    /\ inflight = <<>>
    /\ ADMIN_TOKEN = Undefined
    /\ \E reachable \in BOOLEAN :
          page = [input |-> <<>>, pending |-> <<>>,
                  cards |-> renderItems(fetchItems(reachable).body)]

Typed == {Str(<<>>), Str(<<"a">>), Str(<<"a", "b">>), Str(<<"b", " ">>), Str(<<"l", "l">>)}

NextBrowser ==
    \/ \E value \in Typed : Input(value)
    \/ \E i \in 1..Len(page.pending), reachable \in BOOLEAN : Arrive(i, reachable)

SpecBrowser == InitBrowser /\ [][NextBrowser]_vars

\* The whole server: requests of every kind in any order, a few of each. The
\* process starts with no subscribers file and an empty affiliates file;
\* writes end in the order issued, well or with an error.
ServerEmails == {Str(<<"a", "B">>), Str(<<"c">>), Undefined}

ServerBodies ==
    {[BodyA EXCEPT !.id = Num(1)],
     Body(Undefined, Undefined, Str(<<"l">>), Undefined)}

ServerTokens == {Str(<<"s">>), Str(<<"t">>)}

InitServer ==
    /\ subscribersFile = Missing
    /\ affiliatesFile = Json(<<>>)
    /\ InitFiles
    /\ items = <<Lace, Lab>>
    /\ ADMIN_TOKEN = Str(<<"s">>)

NextServer ==
    \/ \E email \in ServerEmails : Len(writes) < MaxPending /\ Subscribe(email)
    \/ \E subject \in {Undefined, Str(<<"a">>)} : Notify(subject, Str(<<"a">>))
    \/ \E i \in 1..Len(notify.sends) : SettleSend(i, "rejected")
    \/ NotifyRespond
    \/ \E token \in ServerTokens : WithinBounds(BodyA) /\ Upsert(token, BodyA)
    \/ \E body \in ServerBodies : WithinBounds(body) /\ Upsert(ADMIN_TOKEN, body)
    \/ \E param \in AdminParams :
          Len(writes) < MaxPending /\ Remove(ADMIN_TOKEN, param)
    \/ List
    \/ Search(Str(<<"a">>))
    \/ GetItems
    \/ \E outcome \in {"ok", "error"} : WriteDone(1, outcome)

SpecServer == InitServer /\ [][NextServer]_vars

\* Overlapping writes: a mutation may arrive while up to MaxOverlap - 1 writes
\* are in flight, every write succeeds, and the writes in flight complete in
\* any order
WriteEmails == {Str(<<"a", "B">>), Str(<<"c">>)}

InitWrites ==
    /\ subscribersFile = Missing
    /\ affiliatesFile = Json(<<>>)
    /\ InitFiles
    /\ items = NoItems
    /\ ADMIN_TOKEN = Undefined

NextWrites ==
    \/ \E email \in WriteEmails : Len(writes) < MaxOverlap /\ Subscribe(email)
    \/ \E body \in {BodyA, [BodyB EXCEPT !.id = Num(1)]} :
          /\ Len(writes) < MaxOverlap
          /\ ~Truthy(body.id) => NewId(affiliates) <= MaxId
          /\ Upsert(Undefined, body)
    \/ Len(writes) < MaxOverlap /\ Remove(Undefined, Str(<<"1">>))
    \/ \E i \in 1..Len(writes) : WriteDone(i, "ok")

SpecWrites == InitWrites /\ [][NextWrites]_vars

\* Subscribe requests in flight together: up to MaxInflight requests arrive
\* before any of them is handled, then their handlers run in any order
RaceEmails == {Str(<<"a", "B">>), Str(<<"A", "b">>), Str(<<"c">>)}

NextRace ==
    \/ \E email \in RaceEmails : Receive(email)
    \/ \E i \in 1..Len(inflight) : Len(writes) < MaxOverlap /\ Handle(i)
    \/ Forget
    \/ WriteDone(1, "ok")

SpecRace == InitWrites /\ [][NextRace]_vars

\* Start-up and restart. The process begins with both arrays empty (let
\* subscribers = [], let affiliates = []) and whatever files the directory
\* holds; last.op = "none" is "the routes are not serving yet".
Started == last.op # "none"

\* The top of the module runs: each array is loaded from its file, and a
\* missing affiliates file is created holding []
Start ==
    /\ ~Started
    /\ subscribers' = Load(subscribersFile)
    /\ affiliates' = Load(affiliatesFile)
    /\ affiliatesFile' = IF affiliatesFile = Missing THEN Json(<<>>) ELSE affiliatesFile
    /\ last' = [op |-> "start", status |-> 0, error |-> "", req |-> Undefined]
    /\ UNCHANGED <<page, inflight, items, ADMIN_TOKEN, subscribersFile, writes, notify, results>>

\* The process dies at any moment: memory, the writes not yet on disk and
\* the requests in hand are gone, the files stay as they are; the next
\* process begins at the top of the module
Crash ==
    /\ Started
    /\ subscribers' = <<>>
    /\ affiliates' = <<>>
    /\ writes' = <<>>
    /\ notify' = Idle
    /\ last' = NoResponse
    /\ results' = NoResults
    /\ inflight' = <<>>
    /\ UNCHANGED <<page, items, ADMIN_TOKEN, subscribersFile, affiliatesFile>>

InitRestart ==
    /\ subscribersFile \in {Missing, Json(<<>>)}
    /\ affiliatesFile \in {Missing, Json(<<>>)}
    /\ subscribers = <<>>
    /\ affiliates = <<>>
    /\ writes = <<>>
    /\ notify = Idle
    /\ last = NoResponse
    /\ results = NoResults
    /\ inflight = <<>>
    /\ page = NoPage
    /\ items = NoItems
    /\ ADMIN_TOKEN = Undefined

NextRestart ==
    \/ Start
    \/ Crash
    \/ \E email \in WriteEmails :
          Started /\ Len(writes) < MaxPending /\ Subscribe(email)
    \/ Started /\ WithinBounds(BodyA) /\ Upsert(Undefined, BodyA)
    \/ Started /\ Len(writes) < MaxPending /\ Remove(Undefined, Str(<<"1">>))
    \/ \E outcome \in {"ok", "error", "truncated"} : WriteDone(1, outcome)

SpecRestart == InitRestart /\ [][NextRestart]_vars

----------------------------------------------------------------------------
(* Properties *)

\* A step in which one of the handlers that answer at once (subscribe, upsert,
\* remove, list) answered a request of kind op
Answered(op) ==
    /\ last'.op = op
    /\ Len(writes') >= Len(writes)
    /\ UNCHANGED <<notify, results, subscribersFile, affiliatesFile>>

CaseEqual(a, b) == toLowerCase(a) = toLowerCase(b)

\* C1: starting from an empty subscriber store, after any sequence of subscribe
\* requests no two entries of the subscriber list are equal under
\* case-insensitive comparison.
C1_NoCaseInsensitiveDuplicates ==
    \A i, j \in 1..Len(subscribers) :
        i # j => ~CaseEqual(subscribers[i], subscribers[j])

\* a subscribe of a stored address in another casing was refused
C1_Witness ==
    /\ last.op = "subscribe"
    /\ last.error = DuplicateMsg
    /\ Len(subscribers) >= 2
    /\ \A i \in 1..Len(subscribers) : subscribers[i] # last.req.s
    /\ \E i \in 1..Len(subscribers) : CaseEqual(subscribers[i], last.req.s)

\* what C5 asks of one step
C5_SubscribeStep ==
    Answered("subscribe") /\ last'.req.ty = "string" /\ last'.req.s # <<>> =>
        /\ IF \E i \in 1..Len(subscribers) : CaseEqual(subscribers[i], last'.req.s)
           THEN /\ last'.status = 400
                /\ last'.error = DuplicateMsg
                /\ subscribers' = subscribers
           ELSE /\ last'.status = 200
                /\ subscribers' = Append(subscribers, last'.req.s)
        /\ (last.op = "subscribe" /\ last.status = 200
              /\ CaseEqual(last.req.s, last'.req.s)) =>
                /\ last'.status = 400
                /\ last'.error = DuplicateMsg
                /\ subscribers' = subscribers
                /\ subscribers'[Len(subscribers')] = last.req.s

\* C5: a subscribe of a non-empty text not in the store (in any casing)
\* succeeds and appends it as typed; a subscribe of a text already there in
\* some casing answers 400 DuplicateSubscriber and leaves the list as it was;
\* so right after a successful subscribe the same address in any casing is
\* refused and the list still ends with the entry in its first casing.
C5_SubscribeTwice == [][C5_SubscribeStep]_vars

\* the second request, in another casing than the stored first one, was refused
C5_Witness ==
    /\ last.op = "subscribe"
    /\ last.status = 400
    /\ last.error = DuplicateMsg
    /\ Len(subscribers) >= 1
    /\ subscribers[Len(subscribers)] # last.req.s
    /\ CaseEqual(subscribers[Len(subscribers)], last.req.s)

Ids_of(affs) == {affs[i].id : i \in 1..Len(affs)}

\* the records of affs whose id is the number the request names
Matching(affs, id) ==
    {i \in 1..Len(affs) : ~Number(id).nan /\ affs[i].id = Number(id).n}

Authorized(token) == ~Truthy(ADMIN_TOKEN) \/ token = ADMIN_TOKEN

ValidBody(body) == Truthy(body.name) /\ Truthy(body.link)

\* C2: starting from a store with unique ids, after any sequence of upsert
\* and remove requests no two affiliate records have the same id.
C2_UniqueIds ==
    \A i, j \in 1..Len(affiliates) : i # j => affiliates[i].id # affiliates[j].id

\* a create on the store that started as ids 2, 1, its write not yet in the file
C2_Witness ==
    /\ last.op = "upsert"
    /\ last.status = 200
    /\ last.req.body.id = Undefined
    /\ Len(affiliates) >= 2
    /\ affiliates[1].id = 2
    /\ affiliatesFile.state = "json"
    /\ Ids_of(affiliatesFile.data) # Ids_of(affiliates)

\* what C3 asks of one step
C3_AdminStep ==
    \A op \in {"upsert", "remove"} :
        Answered(op) =>
            /\ last'.status # 401 <=> Authorized(last'.req.token)
            /\ ~Authorized(last'.req.token) =>
                  /\ last'.status = 401
                  /\ affiliates' = affiliates
                  /\ writes' = writes

\* C3: an upsert or a remove gets past the admin check exactly when no
\* secret is configured or the X-Admin-Token equals the secret; otherwise the
\* answer is 401, the affiliate store is as it was and no write is issued,
\* whatever the body holds.
C3_AdminCheck == [][C3_AdminStep]_vars

\* a complete create body with a wrong token was answered 401
C3_Witness ==
    /\ last.op = "upsert"
    /\ last.status = 401
    /\ ADMIN_TOKEN = Str(<<"s">>)
    /\ last.req.token = Str(<<"t">>)
    /\ ValidBody(last.req.body)

\* what C6 asks of one step
C6_CreateStep ==
    (/\ Answered("upsert")
     /\ Authorized(last'.req.token)
     /\ ValidBody(last'.req.body)
     /\ last'.req.body.id = Undefined) =>
        /\ last'.status = 200
        /\ Len(affiliates') = Len(affiliates) + 1
        /\ SubSeq(affiliates', 1, Len(affiliates)) = affiliates
        /\ LET new == affiliates'[Len(affiliates')]
           IN  /\ IF affiliates = <<>> THEN new.id = 1
                  ELSE /\ new.id - 1 \in Ids_of(affiliates)
                       /\ \A k \in Ids_of(affiliates) : k <= new.id - 1
               /\ new.name = last'.req.body.name
               /\ new.link = last'.req.body.link
               /\ new.banner = last'.req.body.banner
               /\ new.description = last'.req.body.description
               /\ new.categories = last'.req.body.categories

\* C6: an upsert with name and link and no id appends exactly one record,
\* whose id is one more than the largest id in the store before the request,
\* or 1 when the store was empty; the records already stored keep their
\* content and position.
C6_CreateAppendsMaxPlusOne == [][C6_CreateStep]_vars

\* a create on the store 2, 1: the largest id was not the last record's
C6_Witness ==
    /\ last.op = "upsert"
    /\ last.status = 200
    /\ last.req.body.id = Undefined
    /\ Len(affiliates) = 3
    /\ affiliates[1].id = 2
    /\ affiliates[2].id = 1
    /\ affiliates[3].id = 3

\* what C7 asks of one step
C7_UnknownIdStep ==
    (/\ Answered("upsert")
     /\ Authorized(last'.req.token)
     /\ ValidBody(last'.req.body)
     /\ last'.req.body.id # Undefined
     /\ Matching(affiliates, last'.req.body.id) = {}) =>
        /\ last'.status = 404
        /\ affiliates' = affiliates

\* C7: an upsert that supplies an id matching no record answers 404 and
\* leaves the affiliate store as it was.
C7_UnknownIdNotFound == [][C7_UnknownIdStep]_vars

\* what C8 asks of one step
C8_UpdateStep ==
    (/\ Answered("upsert")
     /\ Authorized(last'.req.token)
     /\ ValidBody(last'.req.body)
     /\ last'.req.body.id # Undefined
     /\ Matching(affiliates, last'.req.body.id) # {}) =>
        /\ last'.status = 200
        /\ Len(affiliates') = Len(affiliates)
        /\ \A i \in 1..Len(affiliates) :
              IF i \in Matching(affiliates, last'.req.body.id)
              THEN /\ affiliates'[i].id = affiliates[i].id
                   /\ affiliates'[i].name = last'.req.body.name
                   /\ affiliates'[i].link = last'.req.body.link
                   /\ affiliates'[i].banner = last'.req.body.banner
                   /\ affiliates'[i].description = last'.req.body.description
                   /\ affiliates'[i].categories = last'.req.body.categories
              ELSE affiliates'[i] = affiliates[i]

\* C8: an upsert that supplies the id of a stored record replaces that record
\* where it is with the request's fields: the length is the same, the record
\* at that position keeps its id and every other record is as it was.
C8_UpdateInPlace == [][C8_UpdateStep]_vars

\* the second of three records was replaced, its id given as text
C8_Witness ==
    /\ last.op = "upsert"
    /\ last.status = 200
    /\ last.req.body.id = Str(<<"2">>)
    /\ Len(affiliates) = 3
    /\ affiliates[2].id = 2
    /\ affiliates[2].name = last.req.body.name
    /\ affiliates[1].name # affiliates[2].name

\* what C9 asks of one step
C9_RemoveStep ==
    Answered("remove") /\ Authorized(last'.req.token) =>
        /\ Matching(affiliates, last'.req.body) = {} =>
              /\ last'.status = 404
              /\ affiliates' = affiliates
              /\ writes' = writes
        /\ (last.op = "remove" /\ last.status = 200
              /\ Number(last.req.body) = Number(last'.req.body)) =>
              /\ last'.status = 404
              /\ Len(affiliates') = Len(affiliates)

\* C9: a remove of an id no record has answers 404 and leaves the affiliate
\* store as it was; so a remove repeated right after it succeeded answers 404
\* and the store has the size it had after the first.
C9_RemoveUnknown == [][C9_RemoveStep]_vars

\* a remove of id 1 answered 404 on the store that holds id 2 alone: every
\* start store that holds 2 holds 1, and create gives 1 before 2, so the
\* record 1 was removed before
C9_Witness ==
    /\ last.op = "remove"
    /\ last.status = 404
    /\ Number(last.req.body) = [nan |-> FALSE, n |-> 1]
    /\ Ids_of(affiliates) = {2}

\* text holds pat at some offset
Contains(text, pat) ==
    \E k \in 0..(Len(text) - Len(pat)) : SubSeq(text, k + 1, k + Len(pat)) = pat

\* C4: for every query text q the search answers exactly the catalog items
\* whose search field contains q.toLowerCase(), in catalog order, each item
\* once; the empty query answers the whole catalog.
C4_SearchExact ==
    results.done /\ results.q.ty = "string" =>
        LET expected == {i \in 1..Len(items) :
                            Contains(items[i].search, toLowerCase(results.q.s))}
        IN  /\ Len(results.body) = Cardinality(expected)
            /\ \E f \in [1..Len(results.body) -> expected] :
                  /\ \A j, k \in 1..Len(results.body) : j < k => f[j] < f[k]
                  /\ \A k \in 1..Len(results.body) : results.body[k] = items[f[k]]
            /\ results.q.s = <<>> => results.body = items

\* the query "bA" on a catalog that lists one item twice, among others
C4_Witness ==
    /\ results.done
    /\ results.q = Str(<<"b", "A">>)
    /\ Len(items) = 4
    /\ results.body = <<Ball, Ball>>

\* what C10 asks of one step
C10_NotifyStep ==
    /\ (notify.state # "sending" /\ notify'.state = "sending") =>
          /\ Len(notify'.sends) = Len(subscribers)
          /\ \A i \in 1..Len(subscribers) :
                notify'.sends[i] = [to |-> subscribers[i], state |-> "pending"]
    /\ notify.state = "sending" =>
          /\ notify'.state \in {"sending", "done"}
          /\ Len(notify'.sends) = Len(notify.sends)
          /\ \A i \in 1..Len(notify.sends) :
                /\ notify'.sends[i].to = notify.sends[i].to
                /\ notify.sends[i].state # "pending" =>
                      notify'.sends[i].state = notify.sends[i].state
    /\ (notify.state = "sending" /\ notify'.state = "done") =>
          /\ notify'.status = 200
          /\ notify'.fulfilled =
                Cardinality({i \in 1..Len(notify.sends) :
                                notify.sends[i].state = "fulfilled"})
          /\ notify'.rejected =
                Cardinality({i \in 1..Len(notify.sends) :
                                notify.sends[i].state = "rejected"})
          /\ notify'.fulfilled + notify'.rejected = Len(notify.sends)
    /\ (notify'.state = "done" /\ Truthy(notify'.subject) /\ Truthy(notify'.content)) =>
          notify'.status = 200

\* C10: a notify with subject and content issues one send to each subscriber
\* of the list as it is when the request is handled, and no other send; once
\* every send has settled it answers 200 with the number of sends that
\* succeeded and the number that failed, which add up to the number of sends;
\* a failed send never makes the answer an error.
C10_NotifyCounts == [][C10_NotifyStep]_vars

\* three subscribers, one send failed: "2 succeeded, 1 failed"
C10_Witness ==
    /\ notify.state = "done"
    /\ notify.status = 200
    /\ Len(notify.sends) = 3
    /\ notify.fulfilled = 2
    /\ notify.rejected = 1

\* the sends of the request being handled that have not settled
Pending(n) == {i \in 1..Len(n.sends) : n.sends[i].state = "pending"}

\* what C11 asks of one state: while the request is being handled every
\* pending send can still succeed and can still fail, whatever the others
\* did, and the answer can be produced exactly when no send is pending
C11_State ==
    notify.state = "sending" =>
       /\ \A i \in Pending(notify) :
             /\ ENABLED SettleSend(i, "fulfilled")
             /\ ENABLED SettleSend(i, "rejected")
       /\ (ENABLED NotifyRespond) <=> (Pending(notify) = {})

\* what C11 asks of one step
C11_Step ==
    /\ (notify.state # "sending" /\ notify'.state = "sending") =>
          /\ Len(notify'.sends) = Len(subscribers)
          /\ Pending(notify') = 1..Len(subscribers)
    /\ (notify.state = "sending" /\ notify'.state = "sending" /\ notify' # notify) =>
          \E i \in Pending(notify) :
             /\ notify'.sends[i].state \in {"fulfilled", "rejected"}
             /\ \A j \in (1..Len(notify.sends)) \ {i} :
                   notify'.sends[j] = notify.sends[j]
             /\ Len(notify'.sends) = Len(notify.sends)
    /\ (notify.state = "sending" /\ notify'.state = "done") =>
          /\ Pending(notify) = {}
          /\ notify'.sends = notify.sends

\* C11: the handler issues the sends to all recipients before any of them
\* settles (all are pending in the state the handler leaves); the sends settle
\* one at a time in any order, a send that fails leaves every other send as it
\* was and still able to succeed or fail; the answer is produced only once no
\* issued send is pending.
C11_SendsConcurrent == []C11_State /\ [][C11_Step]_vars

\* the second of three sends has failed, the third has succeeded after it,
\* the first is still pending
C11_Witness ==
    /\ notify.state = "sending"
    /\ Len(notify.sends) = 3
    /\ notify.sends[1].state = "pending"
    /\ notify.sends[2].state = "rejected"
    /\ notify.sends[3].state = "fulfilled"

\* C12: a search whose query is empty or only white space answers the whole
\* catalog in catalog order; any other query answers the items whose search
\* field contains the lowercased, trimmed query, so white space at the ends
\* of the query does not change the answer.
C12_SearchTrimmed ==
    results.done /\ results.q.ty = "string" =>
        LET query == toLowerCase(trim(results.q.s))
            expected == {i \in 1..Len(items) : Contains(items[i].search, query)}
        IN  IF query = <<>>
            THEN results.body = items
            ELSE /\ Len(results.body) = Cardinality(expected)
                 /\ \A i \in 1..Len(items) :
                       (i \in expected) <=>
                          (\E k \in 1..Len(results.body) : results.body[k] = items[i])

\* C13: a notify request whose subject or content is missing or empty is
\* answered 400 at once and issues no send, whoever is subscribed.
C13_NotifyInvalid ==
    (notify.state # "idle" /\ (~Truthy(notify.subject) \/ ~Truthy(notify.content))) =>
        /\ notify.state = "done"
        /\ notify.status = 400
        /\ notify.sends = <<>>
        /\ notify.fulfilled = 0
        /\ notify.rejected = 0

\* a subject with an empty content, while two addresses are subscribed
C13_Witness ==
    /\ notify.state = "done"
    /\ notify.status = 400
    /\ notify.subject = Str(<<"a">>)
    /\ notify.content = Str(<<>>)
    /\ Len(subscribers) = 2

\* what C14 asks of one step
C14_InvalidStep ==
    (Answered("subscribe") /\ (last'.req.ty # "string" \/ last'.req.s = <<>>)) =>
        /\ last'.status = 400
        /\ last'.error = InvalidEmailMsg
        /\ subscribers' = subscribers
        /\ writes' = writes

\* C14: a subscribe request whose email is missing, empty or not a string is
\* answered 400 with the invalid-input message, leaves the subscriber list as
\* it was and issues no file write.
C14_SubscribeInvalid == [][C14_InvalidStep]_vars

\* an email that is a number, answered while an address is subscribed
C14_Witness ==
    /\ last.op = "subscribe"
    /\ last.req = Num(7)
    /\ last.status = 400
    /\ last.error = InvalidEmailMsg
    /\ Len(subscribers) = 1
    /\ writes = <<>>

\* a step in which the callback of a write ran
WriteCompleted == Len(writes') < Len(writes)

\* what C15 asks of one step
C15_Step ==
    /\ WriteCompleted => UNCHANGED <<subscribers, affiliates, last, notify, results>>
    /\ \A op \in {"subscribe", "upsert", "remove"} :
          (Answered(op) /\ last'.status = 200) =>
              /\ Len(writes') = Len(writes) + 1
              /\ writes'[Len(writes')].data =
                    IF op = "subscribe" THEN subscribers' ELSE affiliates'
    /\ (Answered("subscribe") /\ last'.req.ty = "string" /\ last'.req.s # <<>>) =>
          (last'.status = 400 <=>
              \E i \in 1..Len(subscribers) : CaseEqual(subscribers[i], last'.req.s))
    /\ (notify.state # "sending" /\ notify'.state = "sending") =>
          [i \in 1..Len(notify'.sends) |-> notify'.sends[i].to] = subscribers

IsPrefix(s, u) == Len(s) <= Len(u) /\ SubSeq(u, 1, Len(s)) = s

\* C16: across every request of any kind (subscribe, notify, search, items,
\* affiliate upsert, remove and list) and every callback, the subscriber list
\* before the step is a prefix of the list after it: entries are only ever
\* appended, never removed, replaced or reordered.
C16_SubscribersOnlyGrow == [][IsPrefix(subscribers, subscribers')]_vars

\* two addresses are stored, a notify to both has been answered, a search
\* has been answered and the last request removed an affiliate
C16_Witness ==
    /\ Len(subscribers) = 2
    /\ notify.state = "done"
    /\ notify.status = 200
    /\ Len(notify.sends) = 2
    /\ results.done
    /\ results.q = Str(<<"a">>)
    /\ last.op = "remove"
    /\ last.status = 200

StoreFile(op) == IF op = "subscribe" THEN "subscribers" ELSE "affiliates"

\* what C20 asks of one step
C20_Step ==
    /\ \A op \in {"subscribe", "upsert", "remove"} :
          Answered(op) =>
              IF last'.status = 200
              THEN writes' = Append(writes,
                        [file |-> StoreFile(op),
                         data |-> IF op = "subscribe" THEN subscribers' ELSE affiliates'])
              ELSE /\ last'.status \in {400, 401, 404}
                   /\ writes' = writes
                   /\ UNCHANGED <<subscribers, affiliates>>
    /\ Answered("list") => writes' = writes
    /\ (results' # results \/ notify' # notify) => writes' = writes
    /\ Len(writes') > Len(writes) =>
          /\ last'.op \in {"subscribe", "upsert", "remove"}
          /\ last'.status = 200
          /\ Len(writes') = Len(writes) + 1
          /\ (subscribers' # subscribers \/ affiliates' # affiliates
                \/ Truthy(last'.req.body.id))

\* C20: every subscribe, affiliate create, update or remove that succeeds
\* issues, in the step that changes the store, exactly one write of that
\* store's file with the whole store as it is after the change; a request
\* answered 400, 401 or 404 and every read (items, search, list, notify)
\* issues no write.
C20_OneWritePerMutation == [][C20_Step]_vars

\* a remove succeeded: its write, holding the store without the record, is
\* in flight and the affiliates file still holds the record
C20_Witness ==
    /\ last.op = "remove"
    /\ last.status = 200
    /\ writes = <<[file |-> "affiliates", data |-> affiliates]>>
    /\ Len(affiliates) >= 1
    /\ affiliatesFile.state = "json"
    /\ Len(affiliatesFile.data) = Len(affiliates) + 1

\* C17: with the embedded list holding the catalog's items, the fallback
\* search of the page answers, for every query typed, the items the server's
\* search answers for that query, in the same order.
C17_FallbackEqualsServer ==
    (results.done /\ results.via = "fallback") =>
        LET server == SearchResponse(results.q)
        IN  results.body = [i \in 1..Len(server) |-> FallbackItem(server[i])]

\* C19: once every write issued has completed, all of them successfully, each
\* file holds the store in memory (the subscribers file the subscriber list,
\* the affiliates file the affiliate list), in whatever order overlapping
\* writes completed.
C19_FilesEqualStores ==
    writes = <<>> =>
        /\ subscribers # <<>> => subscribersFile = Json(subscribers)
        /\ affiliatesFile = Json(affiliates)

\* two requests in flight together that carry the same address, in any casing
SameAddress(i, j) ==
    /\ i # j
    /\ CaseEqual(inflight[i].email.s, inflight[j].email.s)

ContentOrEmpty(file) == IF file.state = "json" THEN file.data ELSE <<>>

\* what C21 asks of one step
C21_StartStep ==
    (~Started /\ last'.op = "start") =>
        /\ subscribers' = ContentOrEmpty(subscribersFile)
        /\ affiliates' = ContentOrEmpty(affiliatesFile)
        /\ subscribersFile' = subscribersFile
        /\ affiliatesFile.state # "missing" => affiliatesFile' = affiliatesFile

\* C21: at process start, the first and every start after a crash, each of
\* the subscriber and affiliate stores is loaded from its file: it is the
\* file's content when the file exists and parses and the empty list when the
\* file is missing or corrupt; the start can always be taken, whatever the
\* files hold.
C21_LoadAtStart == [](~Started => ENABLED Start) /\ [][C21_StartStep]_vars

\* a restart after a crash: the subscribers file was left half-written and
\* the list is empty, the affiliates file parses and its record is loaded
C21_Witness ==
    /\ last.op = "start"
    /\ subscribersFile = Corrupt
    /\ subscribers = <<>>
    /\ affiliatesFile.state = "json"
    /\ Len(affiliatesFile.data) = 1
    /\ affiliates = affiliatesFile.data

\* C22: once no search of the page is waiting for its answer, the cards on
\* display are the result set of the value now in the search box, as the
\* server or the fallback gives it, in whatever order the answers arrived.
C22_LatestQueryRendered ==
    page.pending = <<>> =>
        \E reachable \in BOOLEAN :
            page.cards = renderItems(Found(Str(page.input), reachable).body)

====
